---- MODULE Spec2Model ----
(***************************************************************************)
(* Siemens PLC operating-mode logger.                                      *)
(*                                                                         *)
(*   syslog_read.py                     the Ingestion Listener: a UDP      *)
(*                                      syslog server that filters and     *)
(*                                      parses datagrams and appends rows  *)
(*                                      to the operating_states table.     *)
(*   monitor_operating_states_watch.py  the Change Poller: polls the table *)
(*                                      (row count, then the latest row)   *)
(*                                      and prints each change.            *)
(*                                                                         *)
(* The two programs are separate processes that share only the SQLite      *)
(* table.  Text is a sequence of one-character strings; a datagram is a    *)
(* sequence of bytes, an ASCII byte being written as its character.  A row *)
(* is the 4-tuple <<timestamp, ip_address, port, operating_state>> that    *)
(* sqlite3 returns, so row[1] is Python's row[0] and row[4] is row[3].     *)
(* Python's None is the empty tuple (both are falsy).                      *)
(***************************************************************************)
EXTENDS Integers, Sequences, FiniteSets, TLC

(***************************************************************************)
(* Bounds of the model.                                                    *)
(***************************************************************************)
\* rows the table may hold before the model stops appending
MaxRecords == 2
\* wall-clock readings are 1..MaxTime
MaxTime == 2

None == <<>>
\* a local variable that has not been assigned yet
Unbound == <<"unbound">>

(***************************************************************************)
(* Text.                                                                   *)
(***************************************************************************)
SE_OPMOD_CHANGED ==
    <<"S", "E", "_", "O", "P", "M", "O", "D", "_", "C", "H", "A", "N", "G", "E", "D">>

relevant_messages == {SE_OPMOD_CHANGED}

\* the literal part of the pattern r'newState="(\w+)"'
KeyOpen == <<"n", "e", "w", "S", "t", "a", "t", "e", "=", "\"">>

Quote == "\""

\* the characters \w matches, among the characters the datagrams use
WordChars ==
    {"A", "B", "C", "D", "E", "F", "G", "H", "I", "J", "K", "L", "M",
     "N", "O", "P", "Q", "R", "S", "T", "U", "V", "W", "X", "Y", "Z",
     "a", "b", "c", "d", "e", "f", "g", "h", "i", "j", "k", "l", "m",
     "n", "o", "p", "q", "r", "s", "t", "u", "v", "w", "x", "y", "z",
     "0", "1", "2", "3", "4", "5", "6", "7", "8", "9", "_"}

\* a byte that is not valid UTF-8 wherever it stands (0xFF)
InvalidByte == "\\xff"

IsValidByte(b) == b # InvalidByte

\* data.decode('utf-8', errors='ignore'): invalid bytes are dropped
Decode(data) == SelectSeq(data, IsValidByte)

\* Python's  sub in text
Contains(text, sub) ==
    \E i \in 1..(Len(text) - Len(sub) + 1) : SubSeq(text, i, i + Len(sub) - 1) = sub

IsRelevantAlways(message) == TRUE

\* any(msg in message for msg in relevant_messages)
IsRelevant(message) == \E msg \in relevant_messages : Contains(message, msg)

\* length of the longest run of \w characters of text starting at position p
RECURSIVE WordRun(_, _)
WordRun(text, p) ==
    IF p <= Len(text) /\ text[p] \in WordChars THEN 1 + WordRun(text, p + 1) ELSE 0

\* The regex engine at start position i: the literal newState=", then \w+
\* greedily, giving characters back until a closing quote follows.  The
\* result is group(1), or None when the pattern does not match at i.
MatchAt(text, i) ==
    IF i + Len(KeyOpen) - 1 <= Len(text) /\ SubSeq(text, i, i + Len(KeyOpen) - 1) = KeyOpen
    THEN LET p == i + Len(KeyOpen)
             run == WordRun(text, p)
             ends == {n \in 1..run : p + n <= Len(text) /\ text[p + n] = Quote}
         IN  IF ends = {} THEN None
             ELSE LET n == CHOOSE m \in ends : \A k \in ends : k <= m
                  IN  SubSeq(text, p, p + n - 1)
    ELSE None

\* re.search: the match at the leftmost start position that has one
RECURSIVE re_search(_, _)
re_search(text, i) ==
    IF i > Len(text) THEN None
    ELSE IF MatchAt(text, i) # None THEN MatchAt(text, i)
    ELSE re_search(text, i + 1)

RECURSIVE re_search_last(_, _)
re_search_last(text, i) ==
    IF i < 1 THEN None
    ELSE IF MatchAt(text, i) # None THEN MatchAt(text, i)
    ELSE re_search_last(text, i - 1)

parse_operating_state_last(message) == re_search_last(message, Len(message))

parse_operating_state_unknown(message) ==
    IF re_search(message, 1) # None THEN re_search(message, 1) ELSE <<"U", "N", "K", "N", "O", "W", "N">>

parse_operating_state(message) == re_search(message, 1)

(***************************************************************************)
(* What a text holds, stated without reference to the search above: the    *)
(* positions at which a well-formed newState="<token>" fragment stands.    *)
(***************************************************************************)
FragmentAt(text, i, n) ==
    /\ n >= 1
    /\ i + Len(KeyOpen) + n <= Len(text)
    /\ SubSeq(text, i, i + Len(KeyOpen) - 1) = KeyOpen
    /\ \A k \in 0..(n - 1) : text[i + Len(KeyOpen) + k] \in WordChars
    /\ text[i + Len(KeyOpen) + n] = Quote

FragmentStarts(text) == {i \in 1..Len(text) : \E n \in 1..Len(text) : FragmentAt(text, i, n)}

FirstFragmentToken(text) ==
    IF FragmentStarts(text) = {} THEN None
    ELSE LET i == CHOOSE j \in FragmentStarts(text) : \A k \in FragmentStarts(text) : j <= k
             n == CHOOSE m \in 1..Len(text) : FragmentAt(text, i, m)
         IN  SubSeq(text, i + Len(KeyOpen), i + Len(KeyOpen) + n - 1)

(***************************************************************************)
(* The datagrams the network delivers.                                     *)
(***************************************************************************)
Sp == <<" ">>
RUN == <<"R", "U", "N">>
Frag(token) == KeyOpen \o token \o <<Quote>>

HeadMarker == SE_OPMOD_CHANGED
\* decodes to the marker
HeadMarkerInvalidByte ==
    <<"S", "E", "_", "O", "P", "M", "O", "D", InvalidByte, "_", "C", "H", "A", "N", "G", "E", "D">>
HeadNearMiss ==
    <<"S", "E", "_", "O", "P", "M", "O", "D", " ", "C", "H", "A", "N", "G", "E", "D">>
HeadNone == <<>>

Heads == {HeadMarker, HeadMarkerInvalidByte, HeadNearMiss, HeadNone}

\* bodies whose first well-formed fragment holds RUN
BodiesRun ==
    { Sp \o Frag(RUN),
      Sp \o Frag(<<"-">>) \o Sp \o Frag(RUN) }

\* bodies whose first well-formed fragment holds st_0p
BodiesSt0p ==
    { Sp \o Frag(<<"s", "t", "_", "0", "p">>) \o Sp \o Frag(RUN),
      Sp \o KeyOpen \o <<"s", "t", "_", InvalidByte, "0", "p", Quote>>,
      <<"x">> \o Frag(<<"s", "t", "_", "0", "p">>) }

\* bodies with no well-formed fragment: truncated, empty token, no quotes,
\* nothing, wrong case of the key, a space in the token
BodiesNoFragment ==
    { Sp \o KeyOpen \o RUN,
      Sp \o Frag(<<>>),
      Sp \o <<"n", "e", "w", "S", "t", "a", "t", "e", "=">> \o RUN,
      <<>>,
      Sp \o <<"n", "e", "w", "s", "t", "a", "t", "e", "=", Quote>> \o RUN \o <<Quote>>,
      Sp \o Frag(RUN \o Sp \o RUN) }

Bodies == BodiesRun \cup BodiesSt0p \cup BodiesNoFragment

Datagrams ==
    {h \o b : h \in Heads, b \in Bodies}
        \cup {Frag(RUN) \o Sp \o SE_OPMOD_CHANGED, KeyOpen \o RUN \o Sp \o SE_OPMOD_CHANGED}

\* source endpoints (host, port) of datagrams
Addrs == {<<"10.0.0.5", 555>>, <<"10.0.0.6", 514>>}

\* a delivery is a datagram and the endpoint it came from
AllDeliveries == Datagrams \X Addrs

\* The deliveries of the two-process specification.  From one endpoint:
\* without the marker, each of a RUN fragment, an st_0p fragment and no
\* fragment; with the marker (plain, and with an invalid byte inside), a RUN
\* fragment; with the marker, a truncated fragment, an empty token and no
\* fragment.  From the other endpoint: the marker and an st_0p fragment.
FewDeliveries ==
    ({h \o b : h \in {HeadNearMiss, HeadNone},
               b \in {Sp \o Frag(RUN), <<"x">> \o Frag(<<"s", "t", "_", "0", "p">>), <<>>}}
         \X {<<"10.0.0.5", 555>>})
        \cup ({h \o Sp \o Frag(RUN) : h \in {HeadMarker, HeadMarkerInvalidByte}}
                  \X {<<"10.0.0.5", 555>>})
        \cup ({HeadMarker \o b : b \in {Sp \o KeyOpen \o RUN, Sp \o Frag(<<>>), <<>>}}
                  \X {<<"10.0.0.5", 555>>})
        \cup {<<HeadMarker \o <<"x">> \o Frag(<<"s", "t", "_", "0", "p">>), <<"10.0.0.6", 514>>>>}

\* datetime.now().isoformat(): the reading of the wall clock, which text
\* comparison orders as the readings themselves.  The wall clock is not
\* monotonic and two readings may be equal.
Timestamps == 1..MaxTime

(***************************************************************************)
(* State.                                                                  *)
(***************************************************************************)
VARIABLES
    store,                  \* rows of the operating_states table, in insertion order
    db_exists,              \* plc_operating_states.db and its table exist
    listener_pc,            \* "init", "listening", "exited"
    sock,                   \* "none", "unbound", "bound", "closed"
    addr,                   \* addr of start_syslog_server: source of the last datagram
    listener_log,           \* the listener's last logging call
    poller_pc,              \* "init", "count", "latest", "exited"
    last_record_count,      \* locals of main()
    last_state,
    current_record_count,
    current_state,
    notifications,          \* the rows printed to the console, in order
    poller_reports,         \* number of "Database file not found" reports
    dgram,                  \* what the last received datagram's text held
    tie_order,              \* "first" or "last": which of the rows of equal timestamp
                            \* this build of SQLite sorts first
    appended_since_tick     \* rows appended since the last tick completed: "no",
                            \* "yes" (one), "many" (two or more), "mid" (one or
                            \* more between the two reads of the running tick);
                            \* "none" while none was appended since the poller started

vars == <<store, db_exists, listener_pc, sock, addr, listener_log,
          poller_pc, last_record_count, last_state, current_record_count, current_state,
          notifications, poller_reports, dgram, tie_order, appended_since_tick>>

listener_vars == <<listener_pc, sock, addr, listener_log, dgram>>

poller_vars == <<poller_pc, last_record_count, last_state, current_record_count, current_state,
                 notifications, poller_reports>>

Log(level, event) == [level |-> level, event |-> event]

\* no datagram was obtained in the last pass of the listener's loop
NoDatagram == [received |-> FALSE, marker |-> FALSE, token |-> None]

\* what the text of a received datagram holds
Holds(text) ==
    [received |-> TRUE, marker |-> Contains(text, SE_OPMOD_CHANGED), token |-> FirstFragmentToken(text)]

Init ==
    /\ store = <<>>
    /\ db_exists = FALSE
    /\ listener_pc = "init"
    /\ sock = "none"
    /\ addr = None
    /\ listener_log = Log("NONE", "none")
    /\ poller_pc = "init"
    /\ last_record_count = 0
    /\ last_state = None
    /\ current_record_count = 0
    /\ current_state = Unbound
    /\ notifications = <<>>
    /\ poller_reports = 0
    /\ dgram = NoDatagram
    /\ tie_order \in {"first", "last"}
    /\ appended_since_tick = "no"

(***************************************************************************)
(* The State Store: the three statements the programs run against SQLite.  *)
(* Each is one transaction; each may fail with sqlite3.Error.              *)
(***************************************************************************)
\* SELECT COUNT(*) FROM operating_states; -1 when sqlite3.Error is caught
get_record_count(ok) == IF ok THEN Len(store) ELSE -1

\* the rows ORDER BY timestamp DESC may put first: those of greatest timestamp
LatestCandidates(s) ==
    {s[i] : i \in {j \in 1..Len(s) : \A k \in 1..Len(s) : s[k][1] <= s[j][1]}}

\* The row ORDER BY timestamp DESC LIMIT 1 fetches from a table that is not
\* empty.  SQL leaves the order of rows of equal timestamp unspecified; a
\* build of SQLite orders them one way, the same way in every call.
LatestRow(s) ==
    LET top == {j \in 1..Len(s) : \A k \in 1..Len(s) : s[k][1] <= s[j][1]} IN
    IF tie_order = "first"
    THEN s[CHOOSE j \in top : \A k \in top : j <= k]
    ELSE s[CHOOSE j \in top : \A k \in top : k <= j]

\* the latest-row query over a sort that orders rows of equal timestamp
\* differently from one call to the next
query_latest_state_unstable == LatestCandidates(store) \cup {None}

\* SELECT ... ORDER BY timestamp DESC LIMIT 1; None when there is no row or
\* when sqlite3.Error is caught
query_latest_state_results ==
    IF store = <<>> THEN {None} ELSE {LatestRow(store), None}

\* log_to_database keeping only the newest row (a table keyed to one row)
log_to_database_replacing(ip_address, port, operating_state) ==
    \/ /\ db_exists
       /\ \E timestamp \in Timestamps :
              store' = <<<<timestamp, ip_address, port, operating_state>>>>
       /\ listener_log' = Log("INFO", "Logged to database")
       /\ appended_since_tick' =
              IF poller_pc = "latest" THEN "mid"
              ELSE IF poller_pc = "count"
                   THEN IF appended_since_tick \in {"no", "none"} THEN "yes" ELSE "many"
              ELSE "no"
    \/ /\ listener_log' = Log("ERROR", "Failed to log to database")
       /\ UNCHANGED <<store, appended_since_tick>>

\* log_to_database: INSERT one row stamped with the wall clock, or catch
\* sqlite3.Error and log it
log_to_database(ip_address, port, operating_state) ==
    \/ /\ db_exists
       /\ Len(store) < MaxRecords
       /\ \E timestamp \in Timestamps :
              store' = Append(store, <<timestamp, ip_address, port, operating_state>>)
       /\ listener_log' = Log("INFO", "Logged to database")
       /\ appended_since_tick' =
              IF poller_pc = "latest" THEN "mid"
              ELSE IF poller_pc = "count"
                   THEN IF appended_since_tick \in {"no", "none"} THEN "yes" ELSE "many"
              ELSE "no"
    \/ /\ listener_log' = Log("ERROR", "Failed to log to database")
       /\ UNCHANGED <<store, appended_since_tick>>

(***************************************************************************)
(* The Ingestion Listener: start_syslog_server.                            *)
(***************************************************************************)
\* start_syslog_server with the returns of lines 95 and 98 left out
ListenerStartIgnoringBindFailure ==
    /\ listener_pc = "init"
    /\ \E init_ok \in BOOLEAN, bind_ok \in BOOLEAN :
           /\ db_exists' = (db_exists \/ init_ok)
           /\ sock' = IF bind_ok THEN "bound" ELSE "unbound"
           /\ listener_pc' = "listening"
           /\ listener_log' =
                  IF bind_ok THEN Log("INFO", "Syslog server started")
                  ELSE Log("ERROR", "Failed to start syslog server")
    /\ UNCHANGED <<store, addr, dgram, appended_since_tick>>
    /\ UNCHANGED poller_vars
    /\ UNCHANGED tie_order

\* init_database, socket.socket, sock.bind
ListenerStart ==
    /\ listener_pc = "init"
    /\ \E init_ok \in BOOLEAN, bind_ok \in BOOLEAN :
           /\ db_exists' = (db_exists \/ init_ok)
           /\ IF bind_ok
              THEN /\ sock' = "bound"
                   /\ listener_pc' = "listening"
                   /\ listener_log' = Log("INFO", "Syslog server started")
              ELSE /\ sock' = "unbound"
                   /\ listener_pc' = "exited"
                   /\ listener_log' = Log("ERROR", "Failed to start syslog server")
    /\ UNCHANGED <<store, addr, dgram, appended_since_tick>>
    /\ UNCHANGED poller_vars
    /\ UNCHANGED tie_order

\* where the loop stands after a pass that ended in the given log call
AfterPassStopOnError(log) == IF log.level = "ERROR" THEN "exited" ELSE "listening"

AfterPass(log) == "listening"

\* What lines 109-114 compute for each datagram: the decoded message, whether
\* it is relevant, and the state parsed from it.
Handling ==
    [data \in Datagrams |->
        LET message == Decode(data) IN
        [message |-> message,
         relevant |-> IsRelevant(message),
         new_state |-> parse_operating_state(message)]]

\* what the text of each datagram holds
Holding == [data \in Datagrams |-> Holds(Decode(data))]

\* One pass of the loop for one datagram: recvfrom, decode, filter, parse,
\* log.  current_state = new_state is the value logged and stored.
Receive(deliveries) ==
    /\ listener_pc = "listening"
    /\ \E delivery \in deliveries :
           LET data == delivery[1]
               src == delivery[2]
           IN
           /\ addr' = src
           /\ dgram' = Holding[data]
           /\ IF Handling[data].relevant
              THEN LET new_state == Handling[data].new_state IN
                   IF new_state # None
                   THEN log_to_database(src[1], src[2], new_state)
                   ELSE /\ listener_log' =
                               Log("INFO", "Received relevant message but no state found")
                        /\ UNCHANGED <<store, appended_since_tick>>
              ELSE /\ listener_log' = Log("DEBUG", "Ignored message")
                   /\ UNCHANGED <<store, appended_since_tick>>
    /\ listener_pc' = AfterPass(listener_log')
    /\ UNCHANGED <<db_exists, sock>>
    /\ UNCHANGED poller_vars
    /\ UNCHANGED tie_order

\* the except branch of line 130 repeating the INSERT that failed last
ReceiveExceptionRetrying ==
    /\ listener_pc = "listening"
    /\ listener_log' = Log("ERROR", "Error processing message")
    /\ dgram' = NoDatagram
    /\ listener_pc' = AfterPass(listener_log')
    /\ IF listener_log = Log("ERROR", "Failed to log to database")
              /\ db_exists /\ Len(store) < MaxRecords
       THEN \E timestamp \in Timestamps :
                store' = Append(store, <<timestamp, addr[1], addr[2], dgram.token>>)
       ELSE UNCHANGED store
    /\ UNCHANGED <<db_exists, sock, addr, appended_since_tick>>
    /\ UNCHANGED poller_vars
    /\ UNCHANGED tie_order

\* a pass of the loop in which recvfrom raises: except Exception logs it
ReceiveException ==
    /\ listener_pc = "listening"
    /\ listener_log' = Log("ERROR", "Error processing message")
    /\ dgram' = NoDatagram
    /\ listener_pc' = AfterPass(listener_log')
    /\ UNCHANGED <<store, db_exists, sock, addr, appended_since_tick>>
    /\ UNCHANGED poller_vars
    /\ UNCHANGED tie_order

\* KeyboardInterrupt: break, then sock.close()
ListenerInterrupt ==
    /\ listener_pc = "listening"
    /\ listener_log' = Log("INFO", "Syslog server stopped")
    /\ sock' = "closed"
    /\ listener_pc' = "exited"
    /\ UNCHANGED <<store, db_exists, addr, dgram, appended_since_tick>>
    /\ UNCHANGED poller_vars
    /\ UNCHANGED tie_order

(***************************************************************************)
(* The Change Poller: main.                                                *)
(***************************************************************************)
CountGateAnyChange(current, last) == current # last

CountGateNoLess(current, last) == current >= last /\ current > 0

\* current_record_count > last_record_count and current_record_count > 0
CountGate(current, last) == current > last /\ current > 0

StateChangedByStateOnly(current, last) == last = None \/ current[4] # last[4]

StateChangedAlways(current, last) == TRUE

\* last_state is None or the timestamp differs or the operating state differs
StateChanged(current, last) ==
    last = None \/ current[1] # last[1] \/ current[4] # last[4]

\* the marker of appended rows once a tick has completed
AfterTick == IF appended_since_tick = "none" THEN "none" ELSE "no"

\* main with the os.path.exists check of lines 57-59 left out
PollerStartWithoutExistsCheck ==
    /\ poller_pc = "init"
    /\ \E ok \in BOOLEAN : last_record_count' = get_record_count(ok)
    /\ last_state' = None
    /\ poller_pc' = "count"
    /\ appended_since_tick' = "none"
    /\ UNCHANGED <<store, db_exists, current_record_count, current_state, notifications,
                   poller_reports>>
    /\ UNCHANGED listener_vars
    /\ UNCHANGED tie_order

\* os.path.exists(DB_FILE), then the first get_record_count
PollerStart ==
    /\ poller_pc = "init"
    /\ IF ~db_exists
       THEN /\ poller_reports' = poller_reports + 1
            /\ poller_pc' = "exited"
            /\ UNCHANGED <<last_record_count, last_state>>
       ELSE /\ \E ok \in BOOLEAN : last_record_count' = get_record_count(ok)
            /\ last_state' = None
            /\ poller_pc' = "count"
            /\ UNCHANGED poller_reports
    /\ appended_since_tick' = IF db_exists THEN "none" ELSE "no"
    /\ UNCHANGED <<store, db_exists, current_record_count, current_state, notifications>>
    /\ UNCHANGED listener_vars
    /\ UNCHANGED tie_order

\* the count read with the assignment of line 72 left out
PollCountWithoutUpdate ==
    /\ poller_pc = "count"
    /\ \E ok \in BOOLEAN :
           /\ current_record_count' = get_record_count(ok)
           /\ IF CountGate(current_record_count', last_record_count)
              THEN poller_pc' = "latest" /\ UNCHANGED appended_since_tick
              ELSE poller_pc' = "count" /\ appended_since_tick' = AfterTick
    /\ UNCHANGED <<store, db_exists, last_record_count, last_state, current_state,
                   notifications, poller_reports>>
    /\ UNCHANGED listener_vars
    /\ UNCHANGED tie_order

\* first half of a tick: read the count; the tick ends here unless it grew
PollCount ==
    /\ poller_pc = "count"
    /\ \E ok \in BOOLEAN :
           /\ current_record_count' = get_record_count(ok)
           /\ IF CountGate(current_record_count', last_record_count)
              THEN /\ last_record_count' = current_record_count'
                   /\ poller_pc' = "latest"
                   /\ UNCHANGED appended_since_tick
              ELSE /\ poller_pc' = "count"
                   /\ appended_since_tick' = AfterTick
                   /\ UNCHANGED last_record_count
    /\ UNCHANGED <<store, db_exists, last_state, current_state, notifications, poller_reports>>
    /\ UNCHANGED listener_vars
    /\ UNCHANGED tie_order

\* second half of a tick: read the latest row, print it if it changed
PollLatest ==
    /\ poller_pc = "latest"
    /\ \E row \in query_latest_state_results :
           /\ current_state' = row
           /\ IF row # None /\ StateChanged(row, last_state)
              THEN /\ notifications' = Append(notifications, row)
                   /\ last_state' = row
              ELSE UNCHANGED <<notifications, last_state>>
    /\ poller_pc' = "count"
    /\ appended_since_tick' = AfterTick
    /\ UNCHANGED <<store, db_exists, last_record_count, current_record_count, poller_reports>>
    /\ UNCHANGED listener_vars
    /\ UNCHANGED tie_order

\* KeyboardInterrupt: break
PollerInterrupt ==
    /\ poller_pc \in {"count", "latest"}
    /\ poller_pc' = "exited"
    /\ UNCHANGED <<store, db_exists, last_record_count, last_state, current_record_count,
                   current_state, notifications, poller_reports, appended_since_tick>>
    /\ UNCHANGED listener_vars
    /\ UNCHANGED tie_order

Next ==
    \/ ListenerStart
    \/ Receive(FewDeliveries)
    \/ ReceiveException
    \/ ListenerInterrupt
    \/ PollerStart
    \/ PollCount
    \/ PollLatest
    \/ PollerInterrupt

Spec == Init /\ [][Next]_vars

\* the listener alone, the poller not being run, under every delivery
NextListener ==
    \/ ListenerStart
    \/ Receive(AllDeliveries)
    \/ ReceiveException
    \/ ListenerInterrupt

SpecListener == Init /\ [][NextListener]_vars

TypeOK ==
    /\ FewDeliveries \subseteq AllDeliveries
    /\ Len(store) <= MaxRecords
    /\ db_exists \in BOOLEAN
    /\ listener_pc \in {"init", "listening", "exited"}
    /\ sock \in {"none", "unbound", "bound", "closed"}
    /\ poller_pc \in {"init", "count", "latest", "exited"}
    /\ last_record_count \in -1..MaxRecords
    /\ current_record_count \in -1..MaxRecords
    /\ Len(notifications) <= MaxRecords
    /\ tie_order \in {"first", "last"}
    /\ appended_since_tick \in {"no", "none", "yes", "many", "mid"}

(***************************************************************************)
(* Properties.                                                             *)
(***************************************************************************)
Last(s) == s[Len(s)]

\* what a notification is compared by
Pair(row) == <<row[1], row[4]>>

PollerRunning == poller_pc \in {"count", "latest"}

\* a step of the poller (every step of the listener leaves poller_vars alone)
PollerStep == poller_vars' # poller_vars \/ (store' = store /\ listener_vars' = listener_vars)

\* a step that completes a poll tick: the count read when the tick ends
\* there, else the read of the latest row
TickCompletes == PollerRunning /\ PollerStep /\ poller_pc' = "count"

\* a step that prints a notification
Emits == notifications' # notifications

\* the table's latest row differs from the row last notified, or none was
LatestDiffersFromNotified ==
    /\ store # <<>>
    /\ \/ notifications = <<>>
       \/ \E row \in LatestCandidates(store) : Pair(row) # Pair(Last(notifications))

\* C1, as stated: on every poll tick a notification is emitted if and only
\* if the table's latest row differs in timestamp or operating state from
\* the row of the previous notification, or none was emitted yet and the
\* table is not empty.
C1_AsStated == [][TickCompletes => (Emits <=> LatestDiffersFromNotified)]_vars

\* C1, amended: on every poll tick a notification is emitted if and only if
\* the tick's count read returned a count above last_record_count, its read
\* of the latest row returned a row, and that row differs in timestamp or
\* operating state from the row of the previous notification (or none was
\* emitted yet); the notification carries the row read.
C1_EmitsIffReadRowDiffers ==
    [][TickCompletes =>
          /\ Emits <=>
                 /\ poller_pc = "latest"
                 /\ current_state' # None
                 /\ \/ notifications = <<>>
                    \/ Pair(current_state') # Pair(Last(notifications))
          /\ Emits => notifications' = Append(notifications, current_state')]_vars

\* a tick has emitted a notification after an earlier one
C1_Witness == Len(notifications) >= 2 /\ poller_pc = "count" /\ current_state = Last(notifications)

\* C2: under every interleaving of appends with the poller's two reads, no
\* two consecutive notifications carry the same (timestamp, operating state)
\* pair.
C2_NoConsecutiveDuplicates ==
    \A i \in 1..(Len(notifications) - 1) :
        Pair(notifications[i]) # Pair(notifications[i + 1])

\* a tick has emitted a notification and a row was appended between its
\* count read and its read of the latest row
C2_Witness ==
    /\ notifications # <<>>
    /\ poller_pc = "count"
    /\ appended_since_tick = "no"
    /\ current_record_count = last_record_count
    /\ last_record_count >= 1
    /\ Len(store) > last_record_count
    /\ current_state = Last(notifications)

\* C3, as stated: ticks with no append since the previous tick completed (or
\* since the poller started) emit nothing and leave last_record_count and
\* last_state unchanged.
C3_AsStated ==
    [][(PollerRunning /\ appended_since_tick \in {"no", "none"}) =>
          UNCHANGED <<notifications, last_record_count, last_state>>]_vars

\* C3, amended: a tick that begins with last_record_count equal to the
\* table's row count ends at its count read, emits nothing and leaves
\* last_record_count and last_state unchanged; so do any number of such
\* ticks while no row is appended.
C3_QuietTickChangesNothing ==
    [][(poller_pc = "count" /\ last_record_count >= Len(store)) =>
          /\ UNCHANGED <<notifications, last_record_count, last_state>>
          /\ poller_pc' # "latest"]_vars

\* the poller has notified the latest row and is level with the table
C3_Witness ==
    /\ poller_pc = "count"
    /\ notifications # <<>>
    /\ last_record_count = Len(store)
    /\ current_record_count = Len(store)
    /\ appended_since_tick = "no"

\* a step that is one pass of the listener's loop
ListenerPass ==
    /\ listener_pc = "listening" /\ listener_pc' = "listening"
    /\ poller_vars' = poller_vars
    /\ (appended_since_tick' = appended_since_tick \/ store' # store)

LoggedToDatabase == Log("INFO", "Logged to database")

FailedToLog == Log("ERROR", "Failed to log to database")

\* the step appends one row holding the datagram's source and token
AppendsDatagramRow ==
    \E timestamp \in Timestamps :
        store' = Append(store, <<timestamp, addr'[1], addr'[2], dgram'.token>>)

\* C4: a datagram whose decoded text lacks the marker, even one holding a
\* well-formed fragment, appends no row: the table is unchanged by it and
\* nothing is notified because of it.
C4_NoMarkerNoRecord ==
    [][(ListenerPass /\ dgram'.received /\ ~dgram'.marker) =>
          /\ store' = store
          /\ notifications' = notifications
          /\ listener_log' = Log("DEBUG", "Ignored message")]_vars

\* a datagram with a well-formed fragment but no marker was ignored while
\* the poller runs
C4_Witness ==
    /\ dgram.received /\ ~dgram.marker /\ dgram.token # None
    /\ listener_log = Log("DEBUG", "Ignored message")
    /\ PollerRunning
    /\ store # <<>>

\* extraction returns the token of the first well-formed fragment
ExtractsFirstToken ==
    \A data \in Datagrams :
        Holding[data].token # None => Handling[data].new_state = Holding[data].token

\* C5, as stated: a datagram with the marker and a well-formed fragment of
\* token X has X extracted and exactly one row appended, holding X and the
\* datagram's source host and port.
C5_AsStated ==
    [][(ListenerPass /\ dgram'.marker /\ dgram'.token # None) =>
          (ExtractsFirstToken /\ AppendsDatagramRow)]_vars

\* C5, amended: a datagram with the marker and a well-formed fragment of
\* token X has X extracted and, unless the INSERT fails, exactly one row
\* appended, holding X and the datagram's source host and port; when the
\* INSERT fails the failure is logged and no row is appended.
C5_ParseableAppendsOneRow ==
    [][(ListenerPass /\ dgram'.marker /\ dgram'.token # None) =>
          /\ ExtractsFirstToken
          /\ \/ AppendsDatagramRow /\ listener_log' = LoggedToDatabase
             \/ store' = store /\ listener_log' = FailedToLog]_vars

\* a row was appended for the first of two fragments, from the second endpoint
C5_Witness ==
    /\ dgram.marker
    /\ dgram.token = <<"s", "t", "_", "0", "p">>
    /\ listener_log = LoggedToDatabase
    /\ addr = <<"10.0.0.6", 514>>
    /\ store # <<>>
    /\ SubSeq(Last(store), 2, 4) = <<"10.0.0.6", 514, <<"s", "t", "_", "0", "p">>>>

\* C6: a datagram with the marker but no well-formed fragment appends no
\* row, is logged at INFO level, leaves the listener listening, and nothing
\* is notified because of it.
C6_ParseMissIsInformational ==
    [][(ListenerPass /\ dgram'.marker /\ dgram'.token = None) =>
          /\ store' = store
          /\ listener_log' = Log("INFO", "Received relevant message but no state found")
          /\ listener_pc' = "listening"
          /\ notifications' = notifications]_vars

\* a relevant datagram without a fragment was handled while the poller runs
C6_Witness ==
    /\ dgram.marker /\ dgram.token = None
    /\ listener_log = Log("INFO", "Received relevant message but no state found")
    /\ listener_pc = "listening"
    /\ PollerRunning
    /\ store # <<>>

\* C7: after any N >= 1 appends the latest-row query returns the row of the
\* N-th append: row order by timestamp is insertion order, also when two
\* appends read equal or non-increasing wall-clock times.
C7_LatestIsLastAppended ==
    store # <<>> => LatestCandidates(store) = {Last(store)}

\* C8: when the poller is running and a row is appended, and no further row
\* is appended before it, the next poll tick (its reads succeeding) emits a
\* notification carrying exactly that row.
C8_NextTickNotifiesAppendedRow ==
    [][(PollerStep /\ poller_pc = "latest" /\ poller_pc' = "count"
            /\ appended_since_tick = "yes" /\ current_state' # None) =>
          (Emits /\ Last(notifications') = Last(store))]_vars

\* C9: no failure while handling one datagram (lossy decode, parse miss,
\* failed INSERT, an exception in the pass) ends the loop: after the pass the
\* listener is listening on its socket, and a relevant, parseable datagram
\* whose INSERT succeeds is ingested in whatever pass it arrives.
C9_FailuresNeverStopListener ==
    [][(listener_pc = "listening" /\ listener_log' # Log("INFO", "Syslog server stopped")) =>
          /\ listener_pc' = "listening"
          /\ sock' = "bound"
          /\ (ListenerPass /\ dgram'.marker /\ dgram'.token # None
                  /\ listener_log' # FailedToLog) => AppendsDatagramRow]_vars

\* the listener is listening after a failed INSERT that followed an ingestion
C9_Witness ==
    /\ listener_pc = "listening"
    /\ listener_log = FailedToLog
    /\ store # <<>>

\* C10: a tick whose reads all succeed, run after a tick whose read of the
\* latest row failed, leaves the table's latest row notified, even if no
\* further row was appended.
C10_FailedReadIsRetried ==
    [][(TickCompletes /\ current_state = None /\ current_record_count' # -1
            /\ (poller_pc = "latest" => current_state' # None)) =>
          /\ notifications' # <<>>
          /\ \E row \in LatestCandidates(store) : Pair(row) = Pair(Last(notifications'))]_vars

\* C11: when binding the socket fails the listener logs the failure at ERROR
\* level and exits; it never listens afterwards, has received no datagram
\* and has appended no row.
C11_BindFailureIsFatal ==
    sock = "unbound" =>
        /\ listener_pc = "exited"
        /\ listener_log = Log("ERROR", "Failed to start syslog server")
        /\ dgram = NoDatagram
        /\ addr = None
        /\ store = <<>>

\* the bind failed although the table exists, and the poller polls it
C11_Witness ==
    /\ sock = "unbound"
    /\ listener_pc = "exited"
    /\ db_exists
    /\ poller_pc = "count"
    /\ current_record_count = 0

\* C12: when the poller starts and the table does not exist, it reports that
\* once and exits, having read nothing and emitted nothing, and an exited
\* poller does nothing more; when the table exists it enters its loop
\* without a report.
C12_MissingStoreIsFatal ==
    [][/\ (poller_pc = "init" /\ poller_vars' # poller_vars) =>
              IF db_exists
              THEN poller_pc' = "count" /\ poller_reports' = 0
              ELSE /\ poller_pc' = "exited"
                   /\ poller_reports' = 1
                   /\ UNCHANGED <<last_record_count, last_state, current_record_count,
                                  current_state, notifications>>
       /\ poller_pc = "exited" => poller_vars' = poller_vars]_vars

\* the poller found no table and exited; the listener then created the
\* table and appended to it
C12_Witness ==
    /\ poller_pc = "exited"
    /\ poller_reports = 1
    /\ current_state = Unbound
    /\ notifications = <<>>
    /\ store # <<>>

\* C13: on every exit path of the listener, interruption and bind failure
\* alike, the socket it created has been closed once the listener has exited.
C13_SocketReleasedOnExit == listener_pc = "exited" => sock = "closed"

\* C14: the table is append-only under every step of both loops: a step
\* keeps every stored row, in place and unchanged, and adds at most one row
\* at the end; the row count never decreases; a step of the poller leaves
\* the table as it is.
C14_StoreIsAppendOnly ==
    [][/\ Len(store') >= Len(store)
       /\ Len(store') <= Len(store) + 1
       /\ SubSeq(store', 1, Len(store)) = store
       /\ poller_vars' # poller_vars => store' = store]_vars

\* two rows were appended, the second one differing from the first, and the
\* poller has read the table and emitted
C14_Witness ==
    /\ Len(store) >= 2
    /\ store[1] # store[2]
    /\ notifications # <<>>
    /\ poller_pc = "count"

\* the table's latest row has the timestamp and state of last_state
LatestSameAsLastState ==
    /\ store # <<>>
    /\ last_state # None
    /\ \A row \in LatestCandidates(store) : Pair(row) = Pair(last_state)

\* C15: a tick whose count read finds the count increased sets
\* last_record_count to that count; when the table's latest row has the
\* timestamp and state of last_state, the tick emits nothing and leaves
\* last_state unchanged, last_record_count staying at the count read.
C15_SameLatestUpdatesCountOnly ==
    [][/\ (poller_pc = "count" /\ poller_pc' = "latest") =>
              /\ current_record_count' > last_record_count
              /\ last_record_count' = current_record_count'
       /\ (poller_pc = "latest" /\ poller_pc' = "count" /\ LatestSameAsLastState) =>
              /\ UNCHANGED <<notifications, last_state>>
              /\ last_record_count' = current_record_count'
              /\ last_record_count' = last_record_count]_vars

\* the count read of a tick found a second row while the table's latest row
\* is the row already notified
C15_Witness ==
    /\ poller_pc = "latest"
    /\ LatestSameAsLastState
    /\ Len(notifications) = 1
    /\ last_state = Last(notifications)
    /\ Len(store) = 2
    /\ last_record_count = 2
    /\ current_record_count = 2

\* C16: when two or more rows were appended between two consecutive poll
\* ticks, the next tick (its reads succeeding) emits exactly one notification
\* and it carries the last of those rows, not an intermediate one.
C16_BurstNotifiesOnlyLatest ==
    [][(PollerStep /\ poller_pc = "latest" /\ poller_pc' = "count"
            /\ appended_since_tick = "many" /\ current_state' # None) =>
          /\ Len(notifications') = Len(notifications) + 1
          /\ Last(notifications') = Last(store)]_vars

\* C17: a failed INSERT is neither retried nor queued: the pass whose INSERT
\* fails leaves the table unchanged, and every row a step adds is the one
\* row of the datagram received in that very step, its INSERT succeeding; a
\* pass that obtains no datagram adds nothing.
C17_FailedAppendNotRetried ==
    [][/\ (ListenerPass /\ listener_log' = FailedToLog) =>
              (store' = store /\ dgram'.marker /\ dgram'.token # None)
       /\ store' # store =>
              /\ dgram'.received
              /\ AppendsDatagramRow
              /\ listener_log' = LoggedToDatabase]_vars

\* the INSERT for a datagram failed and no stored row holds its token
C17_Witness ==
    /\ listener_pc = "listening"
    /\ listener_log = FailedToLog
    /\ dgram.token # None
    /\ store # <<>>
    /\ \A i \in 1..Len(store) : store[i][4] # dgram.token

\* C18: rows already in the table when the poller starts are not notified:
\* a tick emits only after a row was appended while the poller was running.
C18_NoNotificationBeforeAppend ==
    [][Emits => appended_since_tick # "none"]_vars

\* C19: every notification carries a row of the table, and successive
\* notifications follow the order of appends: the notified rows can be found
\* in the table at strictly increasing positions.
C19_NotificationsFollowStoreOrder ==
    \E f \in [1..Len(notifications) -> 1..Len(store)] :
        /\ \A k \in 1..Len(notifications) : store[f[k]] = notifications[k]
        /\ \A k \in 1..(Len(notifications) - 1) : f[k] < f[k + 1]

\* two notifications carry two rows of equal timestamp
C19_Witness ==
    /\ Len(notifications) = 2
    /\ Len(store) = 2
    /\ notifications = store
    /\ store[1][1] = store[2][1]

\* C20: last_record_count never exceeds the table's row count and, once the
\* poller has started, never decreases, also when the count read at startup
\* or a later one fails and returns -1.
C20_CountMonotoneAndBounded ==
    [][/\ last_record_count <= Len(store)
       /\ last_record_count' <= Len(store')
       /\ poller_pc # "init" => last_record_count' >= last_record_count]_vars

\* a count read failed after the poller had counted a row
C20_Witness ==
    /\ poller_pc = "count"
    /\ current_record_count = -1
    /\ last_record_count >= 1
    /\ last_record_count = Len(store)

====
